---- MODULE Spec2Model ----
(***************************************************************************)
(* Kun-peng (kr2r) classifier core: the minimizer scanner of               *)
(* kr2r/src/mmscanner.rs and the hit resolver of kr2r/src/classify.rs.     *)
(*                                                                         *)
(* Two specifications share the module: Spec drives one MinimizerScanner   *)
(* through set_seq_end / next_* calls, SpecResolve drives process_hitgroup *)
(* (stat_hits, resolve_tree, the hit-groups gate) over a bounded taxonomy. *)
(* Words are u64 in the source; here an l-mer is the natural number below  *)
(* 4^l it denotes, and a full 64-bit word is its 32 base-4 digits.         *)
(***************************************************************************)
EXTENDS Integers, Sequences, FiniteSets, TLC

VARIABLES meros, scanner, seq, api, out, outpos, start_last, pc,
          taxonomy, hits, required_score, minimum_hit_groups,
          hit_counts, todo, max_taxon, max_score, phase1, call, result, rpc,
          win, rc, drv, wk

scanVars == <<meros, scanner, seq, api, out, outpos, start_last, pc>>
resVars == <<taxonomy, hits, required_score, minimum_hit_groups,
             hit_counts, todo, max_taxon, max_score, phase1, call, result, rpc>>
extVars == <<win, rc, drv, wk>>
vars == <<scanVars, resVars, extVars>>

----------------------------------------------------------------------------
(* Bounds of the model.                                                    *)

MaxLen == 4
MaxL == 2
MaxSpan == 2
MaxNodes == 4
MaxRows == 3
MaxRequired == 4
MaxMinGroups == 2
MaxPeriod == 3
MaxCap == 3
MaxCand == 2
MaxFeed == 5
MaxFiles == 2
MaxItems == 2
MaxBatch == 2
MaxCalls == 2

----------------------------------------------------------------------------
(* Option<u64>: None is the empty tuple, Some(x) the one-element tuple.    *)

None == <<>>
Some(x) == <<x>>

BITS_PER_CHAR == 2
U64_MAX == -1

RECURSIVE Pow4(_)
Pow4(n) == IF n = 0 THEN 1 ELSE 4 * Pow4(n - 1)

RECURSIVE BitXor(_, _)
BitXor(a, b) ==
    IF a = 0 THEN b
    ELSE IF b = 0 THEN a
    ELSE (((a % 2) + (b % 2)) % 2) + (2 * BitXor(a \div 2, b \div 2))

RECURSIVE BitAnd(_, _)
BitAnd(a, b) ==
    IF a = 0 \/ b = 0 THEN 0
    ELSE ((a % 2) * (b % 2)) + (2 * BitAnd(a \div 2, b \div 2))

(* A 64-bit word as 32 two-bit digits, digit 0 the least significant.      *)
Digit(x, i) == (x \div Pow4(i)) % 4
ToWord(x) == [i \in 0..31 |-> IF i < 15 THEN Digit(x, i) ELSE 0]

RECURSIVE LowValue(_, _)
LowValue(w, n) == IF n = 0 THEN 0 ELSE LowValue(w, n - 1) + (w[n - 1] * Pow4(n - 1))

(* 0xe37e28c4271b5a2d *)
DEFAULT_TOGGLE_MASK ==
    [i \in 0..31 |->
        <<1, 3, 2, 0, 2, 2, 1, 1, 3, 2, 1, 0, 3, 1, 2, 0,
          0, 1, 0, 3, 0, 2, 2, 0, 2, 3, 3, 1, 3, 0, 2, 3>>[i + 1]]
DEFAULT_SPACED_SEED_MASK == 0

(* Meros::new(k_mer, l_mer, None, None, None)                              *)
Meros_new(k_mer, l_mer) ==
    [k_mer |-> k_mer,
     l_mer |-> l_mer,
     mask |-> Pow4(l_mer) - 1,
     spaced_seed_mask |-> DEFAULT_SPACED_SEED_MASK,
     toggle_mask |-> LowValue(DEFAULT_TOGGLE_MASK, l_mer),
     min_clear_hash_value |-> None]

window_size(m) == m.k_mer - m.l_mer

(* One stage of the bit reversal: exchange neighbouring blocks of s digits. *)
SwapBlocks(w, s) ==
    [i \in 0..31 |-> w[IF (i \div s) % 2 = 0 THEN i + s ELSE i - s]]

(* Mutant: the complemented word is masked without the right shift.       *)
reverse_complement_word_unshifted(w0, n) ==
    LET w1 == SwapBlocks(w0, 1)
        w2 == SwapBlocks(w1, 2)
        w3 == SwapBlocks(w2, 4)
        w4 == SwapBlocks(w3, 8)
        w5 == SwapBlocks(w4, 16)
    IN  [i \in 0..31 |-> IF i < n THEN 3 - w5[i] ELSE 0]

(* reverse_complement on the 64-bit word itself.                           *)
reverse_complement_word(w0, n) ==
    LET w1 == SwapBlocks(w0, 1)
        w2 == SwapBlocks(w1, 2)
        w3 == SwapBlocks(w2, 4)
        w4 == SwapBlocks(w3, 8)
        w5 == SwapBlocks(w4, 16)
        neg == [i \in 0..31 |-> 3 - w5[i]]
        shifted == [i \in 0..31 |-> IF i + (32 - n) <= 31 THEN neg[i + (32 - n)] ELSE 0]
    IN  [i \in 0..31 |-> IF i < n THEN shifted[i] ELSE 0]

(* A shift of a u64 by 64 bits or more overflows.                          *)
shift_overflows(n) == 64 - (n * 2) >= 64 \/ 64 - (n * 2) < 0 \/ n * 2 >= 64

reverse_complement(kmer, n) == LowValue(reverse_complement_word(ToWord(kmer), n), n)

(* Mutant: the word itself stands for the pair, not the smaller strand.    *)
canonical_representation_forward(kmer, n) == kmer

canonical_representation(kmer, n) ==
    LET revcom == reverse_complement(kmer, n)
    IN  IF kmer < revcom THEN kmer ELSE revcom

char_to_value(c) ==
    CASE c \in {"A", "a"} -> Some(0)
      [] c \in {"C", "c"} -> Some(1)
      [] c \in {"G", "g"} -> Some(2)
      [] c \in {"T", "t"} -> Some(3)
      [] OTHER -> None

----------------------------------------------------------------------------
(* MinimizerWindow                                                         *)

MinimizerWindow_new == [queue |-> <<>>, count |-> 0]

RECURSIVE PopBackGreater(_, _)
PopBackGreater(q, c) ==
    IF q # <<>> /\ q[Len(q)].candidate_lmer > c
    THEN PopBackGreater(SubSeq(q, 1, Len(q) - 1), c)
    ELSE q

(* Mutant: the warm-up of the window ends one candidate early.             *)
MinimizerWindow_next_early(w, capacity, candidate_lmer) ==
    IF capacity = 1
    THEN [window |-> w, ret |-> Some(candidate_lmer)]
    ELSE LET data == [pos |-> w.count, candidate_lmer |-> candidate_lmer]
             q1 == Append(PopBackGreater(w.queue, candidate_lmer), data)
         IN  IF w.count + 1 < capacity
             THEN [window |-> [queue |-> q1, count |-> w.count + 1], ret |-> None]
             ELSE LET q2 == IF q1 # <<>> /\ q1[1].pos < w.count - capacity
                            THEN Tail(q1) ELSE q1
                  IN  [window |-> [queue |-> q2, count |-> w.count + 1],
                       ret |-> IF q2 = <<>> THEN None ELSE Some(q2[1].candidate_lmer)]

(* Mutant: an entry that has left the window is never popped off the front. *)
MinimizerWindow_next_no_evict(w, capacity, candidate_lmer) ==
    IF capacity = 1
    THEN [window |-> w, ret |-> Some(candidate_lmer)]
    ELSE LET data == [pos |-> w.count, candidate_lmer |-> candidate_lmer]
             q1 == Append(PopBackGreater(w.queue, candidate_lmer), data)
         IN  IF w.count < capacity
             THEN [window |-> [queue |-> q1, count |-> w.count + 1], ret |-> None]
             ELSE [window |-> [queue |-> q1, count |-> w.count + 1],
                   ret |-> Some(q1[1].candidate_lmer)]

(* Mutant: capacity 1 takes the deque path like every other capacity.      *)
MinimizerWindow_next_no_shortcut(w, capacity, candidate_lmer) ==
    LET data == [pos |-> w.count, candidate_lmer |-> candidate_lmer]
        q1 == Append(PopBackGreater(w.queue, candidate_lmer), data)
    IN  IF w.count < capacity
        THEN [window |-> [queue |-> q1, count |-> w.count + 1], ret |-> None]
        ELSE LET q2 == IF q1 # <<>> /\ q1[1].pos < w.count - capacity
                       THEN Tail(q1) ELSE q1
             IN  [window |-> [queue |-> q2, count |-> w.count + 1],
                  ret |-> IF q2 = <<>> THEN None ELSE Some(q2[1].candidate_lmer)]

MinimizerWindow_next(w, capacity, candidate_lmer) ==
    IF capacity = 1
    THEN [window |-> w, ret |-> Some(candidate_lmer)]
    ELSE LET data == [pos |-> w.count, candidate_lmer |-> candidate_lmer]
             q1 == Append(PopBackGreater(w.queue, candidate_lmer), data)
         IN  IF w.count < capacity
             THEN [window |-> [queue |-> q1, count |-> w.count + 1], ret |-> None]
             ELSE LET q2 == IF q1 # <<>> /\ q1[1].pos < w.count - capacity
                            THEN Tail(q1) ELSE q1
                  IN  [window |-> [queue |-> q2, count |-> w.count + 1],
                       ret |-> IF q2 = <<>> THEN None ELSE Some(q2[1].candidate_lmer)]

MinimizerWindow_clear(w) == [queue |-> <<>>, count |-> 0]

----------------------------------------------------------------------------
(* Cursor                                                                  *)

Cursor_new(m) ==
    [pos |-> 0, end |-> 0, inner |-> <<>>, value |-> 0,
     window |-> MinimizerWindow_new]

(* Mutant: clear empties the window and the value, not the base ring.     *)
Cursor_clear_keeps_inner(cur) ==
    [cur EXCEPT !.value = 0, !.window = MinimizerWindow_clear(cur.window)]

Cursor_clear(cur) ==
    [cur EXCEPT !.inner = <<>>, !.value = 0,
                !.window = MinimizerWindow_clear(cur.window)]

Cursor_next_lmer(cur, m, item) ==
    LET v1 == (cur.value * Pow4(1)) + item
        in1 == IF Len(cur.inner) = m.l_mer THEN Tail(cur.inner) ELSE cur.inner
        in2 == Append(in1, item)
    IN  IF Len(in2) >= m.l_mer
        THEN [cursor |-> [cur EXCEPT !.inner = in2, !.value = v1 % (m.mask + 1)],
              ret |-> Some(v1 % (m.mask + 1))]
        ELSE [cursor |-> [cur EXCEPT !.inner = in2, !.value = v1], ret |-> None]

Cursor_has_next(cur) == cur.pos < cur.end

(* slide: the index seq[self.pos] is 0-based, s[pos + 1] here; an index at *)
(* or past the slice length panics.                                        *)
RECURSIVE Cursor_slide(_, _, _)
Cursor_slide(cur, m, s) ==
    IF ~(cur.pos < cur.end)
    THEN [cursor |-> cur, ret |-> None, panic |-> FALSE]
    ELSE IF cur.pos >= Len(s)
    THEN [cursor |-> cur, ret |-> None, panic |-> TRUE]
    ELSE LET ch == s[cur.pos + 1]
             skip == ch = "\n" \/ ch = "\r"
             p1 == IF skip THEN cur.pos + 1 ELSE cur.pos
         IN  IF p1 >= Len(s)
             THEN [cursor |-> [cur EXCEPT !.pos = p1], ret |-> None, panic |-> TRUE]
             ELSE LET code == char_to_value(s[p1 + 1])
                      cur1 == [cur EXCEPT !.pos = p1 + 1]
                  IN  IF code # None
                      THEN LET r == Cursor_next_lmer(cur1, m, code[1])
                           IN  IF r.ret # None
                               THEN [cursor |-> r.cursor, ret |-> r.ret, panic |-> FALSE]
                               ELSE Cursor_slide(r.cursor, m, s)
                      ELSE Cursor_slide(Cursor_clear(cur1), m, s)

Cursor_next_candidate_lmer(cur, m, item) ==
    LET r == MinimizerWindow_next(cur.window, window_size(m), item)
    IN  [cursor |-> [cur EXCEPT !.window = r.window], ret |-> r.ret]

----------------------------------------------------------------------------
(* MinimizerScanner                                                        *)

MinimizerScanner_new(m) == [cursor |-> Cursor_new(m), last_minimizer |-> U64_MAX]

MinimizerScanner_reset(sc) ==
    [cursor |-> Cursor_clear(sc.cursor), last_minimizer |-> U64_MAX]

MinimizerScanner_set_seq_end(sc, s) ==
    [sc EXCEPT !.cursor.pos = 0, !.cursor.end = Len(s)]

to_candidate_lmer(m, lmer) ==
    LET canonical_lmer == canonical_representation(lmer, m.l_mer)
        spaced == IF m.spaced_seed_mask > 0
                  THEN BitAnd(canonical_lmer, m.spaced_seed_mask)
                  ELSE canonical_lmer
    IN  BitXor(spaced, m.toggle_mask)

get_last_minimizer(sc) == None

next_window(sc, m, s) ==
    LET r == Cursor_slide(sc.cursor, m, s)
    IN  IF r.panic \/ r.ret = None
        THEN [scanner |-> [sc EXCEPT !.cursor = r.cursor], ret |-> None, panic |-> r.panic]
        ELSE LET c == Cursor_next_candidate_lmer(r.cursor, m, to_candidate_lmer(m, r.ret[1]))
             IN  [scanner |-> [sc EXCEPT !.cursor = c.cursor], ret |-> c.ret, panic |-> FALSE]

RECURSIVE next_minimizer_inclusive(_, _, _)
next_minimizer_inclusive(sc, m, s) ==
    IF Cursor_has_next(sc.cursor)
    THEN LET r == next_window(sc, m, s)
         IN  IF r.panic THEN r
             ELSE IF r.ret # None
             THEN [scanner |-> r.scanner, ret |-> Some(BitXor(r.ret[1], m.toggle_mask)),
                   panic |-> FALSE]
             ELSE next_minimizer_inclusive(r.scanner, m, s)
    ELSE [scanner |-> [sc EXCEPT !.cursor = Cursor_clear(sc.cursor)],
          ret |-> get_last_minimizer(sc), panic |-> FALSE]

(* Mutant: last_minimizer is not updated when a value is returned.         *)
RECURSIVE next_minimizer_stale_last(_, _, _)
next_minimizer_stale_last(sc, m, s) ==
    IF Cursor_has_next(sc.cursor)
    THEN LET r == next_window(sc, m, s)
         IN  IF r.panic THEN r
             ELSE IF r.ret # None /\ r.ret[1] # sc.last_minimizer
             THEN [scanner |-> r.scanner,
                   ret |-> Some(BitXor(r.ret[1], m.toggle_mask)),
                   panic |-> FALSE]
             ELSE next_minimizer_stale_last(r.scanner, m, s)
    ELSE [scanner |-> [sc EXCEPT !.cursor = Cursor_clear(sc.cursor)],
          ret |-> get_last_minimizer(sc), panic |-> FALSE]

(* Mutant: a candidate below the last one is suppressed like a duplicate.  *)
RECURSIVE next_minimizer_skips_smaller(_, _, _)
next_minimizer_skips_smaller(sc, m, s) ==
    IF Cursor_has_next(sc.cursor)
    THEN LET r == next_window(sc, m, s)
         IN  IF r.panic THEN r
             ELSE IF /\ r.ret # None
                     /\ r.ret[1] # sc.last_minimizer
                     /\ (sc.last_minimizer = U64_MAX \/ r.ret[1] > sc.last_minimizer)
             THEN [scanner |-> [r.scanner EXCEPT !.last_minimizer = r.ret[1]],
                   ret |-> Some(BitXor(r.ret[1], m.toggle_mask)),
                   panic |-> FALSE]
             ELSE next_minimizer_skips_smaller(r.scanner, m, s)
    ELSE [scanner |-> [sc EXCEPT !.cursor = Cursor_clear(sc.cursor)],
          ret |-> get_last_minimizer(sc), panic |-> FALSE]

RECURSIVE next_minimizer(_, _, _)
next_minimizer(sc, m, s) ==
    IF Cursor_has_next(sc.cursor)
    THEN LET r == next_window(sc, m, s)
         IN  IF r.panic THEN r
             ELSE IF r.ret # None /\ r.ret[1] # sc.last_minimizer
             THEN [scanner |-> [r.scanner EXCEPT !.last_minimizer = r.ret[1]],
                   ret |-> Some(BitXor(r.ret[1], m.toggle_mask)),
                   panic |-> FALSE]
             ELSE next_minimizer(r.scanner, m, s)
    ELSE [scanner |-> [sc EXCEPT !.cursor = Cursor_clear(sc.cursor)],
          ret |-> get_last_minimizer(sc), panic |-> FALSE]

(* crate::fmix64, the MurmurHash3 finalizer: a bijection on u64, kept as   *)
(* an uninterpreted one-to-one image of its argument.                      *)
murmur_hash3(x) == [fmix64 |-> x]

(* min_clear_hash_value is None in every Meros built here, so map_or(true) *)
(* keeps each hashed value.                                                *)
next_hashed_minimizer(sc, m, s) ==
    LET r == next_minimizer_inclusive(sc, m, s)
    IN  IF r.panic \/ r.ret = None THEN r
        ELSE [scanner |-> r.scanner, ret |-> Some(murmur_hash3(r.ret[1])), panic |-> FALSE]

----------------------------------------------------------------------------
(* The scanner's callers: one scanner per Meros and stream primitive,      *)
(* bound to slice after slice and drained with that primitive.             *)

Alphabet == {"A", "C", "G", "N", "\n"}
Slices == UNION {[1..n -> Alphabet] : n \in 0..MaxLen}

(* The scenarios of the specification and of the source's tests, which     *)
(* are longer than MaxLen or use bytes outside Alphabet.                   *)
Scenarios ==
    {[k |-> 5,  l |-> 3, s |-> <<"A","C","G","T","N","A","C","G","T">>],
     [k |-> 10, l |-> 5,
      s |-> <<"A","C","G","A","T","C","G","A","C","G","A","C","G">>],
     [k |-> 3,  l |-> 2, s |-> <<"a","c","\r","\n","g","t","A">>],
     [k |-> 3,  l |-> 1, s |-> <<"G","A","T","T","A","C","A">>]}

MerosSet ==
    {Meros_new(l + d, l) : l \in 1..MaxL, d \in 0..MaxSpan}
        \cup {Meros_new(x.k, x.l) : x \in Scenarios}

SlicesFor(m) ==
    (IF m.l_mer <= MaxL /\ m.k_mer - m.l_mer <= MaxSpan THEN Slices ELSE {})
        \cup {x.s : x \in {y \in Scenarios : y.k = m.k_mer /\ y.l = m.l_mer}}

Apis == {"next_minimizer", "next_minimizer_inclusive", "next_hashed_minimizer"}

(* The parts of the module an execution does not use stay at rest.         *)
ExtIdle == win = <<>> /\ rc = <<>> /\ drv = <<>> /\ wk = <<>>

ResolverIdle ==
    /\ taxonomy = <<>> /\ hits = <<>> /\ required_score = 0
    /\ minimum_hit_groups = 0 /\ hit_counts = <<>> /\ todo = {}
    /\ max_taxon = 0 /\ max_score = 0 /\ phase1 = <<>> /\ call = 0
    /\ result = <<>> /\ rpc = "off"

Init ==
    /\ meros \in MerosSet
    /\ scanner = MinimizerScanner_new(meros)
    /\ seq = <<>>
    /\ api \in Apis
    /\ out = <<>>
    /\ outpos = <<>>
    /\ start_last = U64_MAX
    /\ pc = "idle"
    /\ ResolverIdle
    /\ ExtIdle

(* set_seq_end on a slice the caller has just obtained.                    *)
SetSeqEnd ==
    /\ pc = "idle"
    /\ \E s \in SlicesFor(meros) :
          /\ seq' = s
          /\ scanner' = MinimizerScanner_set_seq_end(scanner, s)
    /\ out' = <<>>
    /\ outpos' = <<>>
    /\ start_last' = scanner.last_minimizer
    /\ pc' = "scanning"
    /\ UNCHANGED <<meros, api, resVars, extVars>>

(* One call of a stream primitive: r is what the call returns.             *)
Returned(r) ==
    /\ scanner' = r.scanner
    /\ IF r.panic
       THEN pc' = "panic" /\ UNCHANGED <<out, outpos>>
       ELSE IF r.ret = None
       THEN pc' = "done" /\ UNCHANGED <<out, outpos>>
       ELSE /\ pc' = "scanning"
            /\ out' = Append(out, r.ret[1])
            /\ outpos' = Append(outpos, r.scanner.cursor.pos)
    /\ UNCHANGED <<meros, seq, api, start_last, resVars, extVars>>

NextMinimizer ==
    /\ pc \in {"scanning", "done"}
    /\ api = "next_minimizer"
    /\ Returned(next_minimizer(scanner, meros, seq))

NextMinimizerInclusive ==
    /\ pc \in {"scanning", "done"}
    /\ api = "next_minimizer_inclusive"
    /\ Returned(next_minimizer_inclusive(scanner, meros, seq))

NextHashedMinimizer ==
    /\ pc \in {"scanning", "done"}
    /\ api = "next_hashed_minimizer"
    /\ Returned(next_hashed_minimizer(scanner, meros, seq))

(* The caller is finished with the slice; the scanner is kept.             *)
DropSlice ==
    /\ pc = "done"
    /\ pc' = "idle"
    /\ seq' = <<>>
    /\ out' = <<>>
    /\ outpos' = <<>>
    /\ start_last' = U64_MAX
    /\ UNCHANGED <<meros, scanner, api, resVars, extVars>>

Reset ==
    /\ pc = "idle"
    /\ scanner' = MinimizerScanner_reset(scanner)
    /\ UNCHANGED <<meros, seq, api, out, outpos, start_last, pc, resVars, extVars>>

Next ==
    \/ SetSeqEnd
    \/ NextMinimizer
    \/ NextMinimizerInclusive
    \/ NextHashedMinimizer
    \/ DropSlice
    \/ Reset

Spec == Init /\ [][Next]_vars

----------------------------------------------------------------------------
(* Taxonomy (crate::taxonomy): node 0 is the unclassified sentinel, node 1 *)
(* the root, and every other node's parent has a smaller id.               *)

Taxonomies ==
    {[nodes |-> [i \in 0..MaxNodes |->
                    [parent_id |-> IF i <= 1 THEN 0 ELSE par[i],
                     external_id |-> IF i = 0 THEN 0 ELSE 100 + i]]] :
        par \in {f \in [2..MaxNodes -> 1..MaxNodes] : \A i \in 2..MaxNodes : f[i] < i}}

RECURSIVE depth(_, _)
depth(tax, a) == IF a = 0 THEN 0 ELSE 1 + depth(tax, tax.nodes[a].parent_id)

RECURSIVE is_a_ancestor_of_b(_, _, _)
is_a_ancestor_of_b(tax, a, b) ==
    IF a = 0 \/ b = 0 THEN FALSE
    ELSE IF depth(tax, b) < depth(tax, a) THEN FALSE
    ELSE IF depth(tax, b) = depth(tax, a) THEN a = b
    ELSE is_a_ancestor_of_b(tax, a, tax.nodes[b].parent_id)

RECURSIVE lca(_, _, _)
lca(tax, a, b) ==
    IF a = 0 THEN b
    ELSE IF b = 0 THEN a
    ELSE IF a = b THEN a
    ELSE IF depth(tax, a) > depth(tax, b) THEN lca(tax, tax.nodes[a].parent_id, b)
    ELSE IF depth(tax, b) > depth(tax, a) THEN lca(tax, a, tax.nodes[b].parent_id)
    ELSE lca(tax, tax.nodes[a].parent_id, tax.nodes[b].parent_id)

(* HitGroup::capacity: the number of hit groups of the read, one row per   *)
(* de-duplicated minimizer that looked up to a nonzero taxon.              *)
capacity(h) == Len(h.rows)

(* The rows are taken in ascending order of taxon: stat_hits only counts   *)
(* them, so every multiset of hits is covered.                             *)
HitGroups ==
    {[rows |-> r] :
        r \in {s \in UNION {[1..n -> 1..MaxNodes] : n \in 0..MaxRows} :
                  \A i \in 1..(Len(s) - 1) : s[i] <= s[i + 1]}}

----------------------------------------------------------------------------
(* classify.rs                                                             *)

(* get(&t).unwrap_or(&0) on a HashMap<u32, u64>                            *)
GetOr0(counts, t) == IF t \in DOMAIN counts THEN counts[t] ELSE 0

RECURSIVE SumOver(_, _)
SumOver(counts, S) ==
    IF S = {} THEN 0
    ELSE LET t == CHOOSE x \in S : TRUE
         IN  counts[t] + SumOver(counts, S \ {t})

(* stat_hits: *counts.entry(key).or_insert(0) += 1 for every row           *)
stat_hits(h) ==
    LET keys == {h.rows[i] : i \in 1..Len(h.rows)}
    IN  [t \in keys |-> Cardinality({i \in 1..Len(h.rows) : h.rows[i] = t})]

(* The inner loop of phase 1: hits at taxon and at its ancestors.          *)
path_score(counts, tax, taxon) ==
    SumOver(counts, {taxon2 \in DOMAIN counts : is_a_ancestor_of_b(tax, taxon2, taxon)})

(* Mutant: the ancestor test of the climbing loop with its arguments       *)
(* exchanged.                                                              *)
clade_score_swapped(counts, tax, t) ==
    SumOver(counts, {taxon \in DOMAIN counts : is_a_ancestor_of_b(tax, taxon, t)})

(* The sum inside the climbing loop: hits in max_taxon's clade.            *)
clade_score(counts, tax, t) ==
    SumOver(counts, {taxon \in DOMAIN counts : is_a_ancestor_of_b(tax, t, taxon)})

(* Mutant: a tie keeps the later taxon instead of folding by lca.           *)
phase1_iteration_no_lca(counts, tax, mt, ms, taxon) ==
    LET score == path_score(counts, tax, taxon)
    IN  IF score >= ms THEN [max_taxon |-> taxon, max_score |-> score]
        ELSE [max_taxon |-> mt, max_score |-> ms]

(* Mutant: on a tie the taxon met first is kept.                           *)
phase1_iteration_first_wins(counts, tax, mt, ms, taxon) ==
    LET score == path_score(counts, tax, taxon)
    IN  IF score > ms THEN [max_taxon |-> taxon, max_score |-> score]
        ELSE [max_taxon |-> mt, max_score |-> ms]

(* One iteration of the outer loop of phase 1, on the map entry taxon.     *)
phase1_iteration(counts, tax, mt, ms, taxon) ==
    LET score == path_score(counts, tax, taxon)
    IN  IF score > ms THEN [max_taxon |-> taxon, max_score |-> score]
        ELSE IF score = ms THEN [max_taxon |-> lca(tax, mt, taxon), max_score |-> ms]
        ELSE [max_taxon |-> mt, max_score |-> ms]

(* The score the climbing loop starts from.                                *)
climb_start_score(counts, mt, ms) == GetOr0(counts, mt)

(* Mutant: a pass that does not break leaves max_taxon where it is.       *)
climb_iteration_stays(counts, tax, mt, required) ==
    LET score == clade_score(counts, tax, mt)
    IN  [max_taxon |-> mt, max_score |-> score, stop |-> score >= required]

(* Mutant: the break of the climbing loop needs a strictly larger score.   *)
climb_iteration_strict(counts, tax, mt, required) ==
    LET score == clade_score(counts, tax, mt)
    IN  IF score > required
        THEN [max_taxon |-> mt, max_score |-> score, stop |-> TRUE]
        ELSE [max_taxon |-> tax.nodes[mt].parent_id, max_score |-> score, stop |-> FALSE]

(* One iteration of the climbing loop; stop is the break.                  *)
climb_iteration(counts, tax, mt, required) ==
    LET score == clade_score(counts, tax, mt)
    IN  IF score >= required
        THEN [max_taxon |-> mt, max_score |-> score, stop |-> TRUE]
        ELSE [max_taxon |-> tax.nodes[mt].parent_id, max_score |-> score, stop |-> FALSE]

(* Mutant: the gate lets a read with one hit group too few through.        *)
hit_groups_gate_off_by_one(call0, hit_groups, min_groups) ==
    IF call0 > 0 /\ hit_groups + 1 < min_groups THEN 0 ELSE call0

(* process_hitgroup after resolve_tree has returned call0.                 *)
hit_groups_gate(call0, hit_groups, min_groups) ==
    IF call0 > 0 /\ hit_groups < min_groups THEN 0 ELSE call0

classify_result(tax, c) ==
    [clasify |-> IF c > 0 THEN "C" ELSE "U",
     ext_call |-> tax.nodes[c].external_id,
     read_count |-> IF c > 0 THEN {c} ELSE {}]

ScannerIdle ==
    /\ meros = <<>> /\ scanner = <<>> /\ seq = <<>> /\ api = "none"
    /\ out = <<>> /\ outpos = <<>> /\ start_last = U64_MAX /\ pc = "off"

InitResolve ==
    /\ ScannerIdle
    /\ ExtIdle
    /\ taxonomy \in Taxonomies
    /\ hits \in HitGroups
    /\ required_score \in 0..MaxRequired
    /\ minimum_hit_groups \in 0..MaxMinGroups
    /\ hit_counts = <<>>
    /\ todo = {}
    /\ max_taxon = 0
    /\ max_score = 0
    /\ phase1 = <<>>
    /\ call = 0
    /\ result = <<>>
    /\ rpc = "start"

(* process_hitgroup up to the call of resolve_tree, and resolve_tree's     *)
(* own initialisation.                                                     *)
StatHits ==
    /\ rpc = "start"
    /\ hit_counts' = stat_hits(hits)
    /\ todo' = DOMAIN stat_hits(hits)
    /\ max_taxon' = 0
    /\ max_score' = 0
    /\ rpc' = "phase1"
    /\ UNCHANGED <<taxonomy, hits, required_score, minimum_hit_groups,
                   phase1, call, result, scanVars, extVars>>

(* The HashMap yields its entries in an unspecified order.                 *)
Phase1Step ==
    /\ rpc = "phase1"
    /\ \E taxon \in todo :
          LET r == phase1_iteration(hit_counts, taxonomy, max_taxon, max_score, taxon)
          IN  /\ max_taxon' = r.max_taxon
              /\ max_score' = r.max_score
              /\ todo' = todo \ {taxon}
    /\ UNCHANGED <<taxonomy, hits, required_score, minimum_hit_groups,
                   hit_counts, phase1, call, result, rpc, scanVars, extVars>>

Phase1End ==
    /\ rpc = "phase1"
    /\ todo = {}
    /\ phase1' = [max_taxon |-> max_taxon, max_score |-> max_score]
    /\ max_score' = climb_start_score(hit_counts, max_taxon, max_score)
    /\ rpc' = "climb"
    /\ UNCHANGED <<taxonomy, hits, required_score, minimum_hit_groups,
                   hit_counts, todo, max_taxon, call, result, scanVars, extVars>>

ClimbStep ==
    /\ rpc = "climb"
    /\ max_taxon # 0 /\ max_score < required_score
    /\ LET r == climb_iteration(hit_counts, taxonomy, max_taxon, required_score)
       IN  /\ max_taxon' = r.max_taxon
           /\ max_score' = r.max_score
           /\ rpc' = IF r.stop THEN "resolved" ELSE "climb"
    /\ UNCHANGED <<taxonomy, hits, required_score, minimum_hit_groups,
                   hit_counts, todo, phase1, call, result, scanVars, extVars>>

ClimbEnd ==
    /\ rpc = "climb"
    /\ ~(max_taxon # 0 /\ max_score < required_score)
    /\ rpc' = "resolved"
    /\ UNCHANGED <<taxonomy, hits, required_score, minimum_hit_groups,
                   hit_counts, todo, max_taxon, max_score, phase1, call,
                   result, scanVars, extVars>>

(* resolve_tree returns max_taxon; process_hitgroup gates and reports it.  *)
Classify ==
    /\ rpc = "resolved"
    /\ call' = hit_groups_gate(max_taxon, capacity(hits), minimum_hit_groups)
    /\ result' = classify_result(taxonomy, call')
    /\ rpc' = "done"
    /\ UNCHANGED <<taxonomy, hits, required_score, minimum_hit_groups,
                   hit_counts, todo, max_taxon, max_score, phase1, scanVars, extVars>>

NextResolve ==
    \/ StatHits
    \/ Phase1Step
    \/ Phase1End
    \/ ClimbStep
    \/ ClimbEnd
    \/ Classify

SpecResolve == InitResolve /\ [][NextResolve]_vars

----------------------------------------------------------------------------
(* Reference notions of the taxonomy tree, stated on sets of nodes.        *)

RECURSIVE AncOrSelf(_, _)
AncOrSelf(tax, t) ==
    IF t = 0 THEN {} ELSE {t} \cup AncOrSelf(tax, tax.nodes[t].parent_id)

RefPathScore(counts, tax, t) ==
    SumOver(counts, DOMAIN counts \cap AncOrSelf(tax, t))

RefCladeScore(counts, tax, t) ==
    SumOver(counts, {u \in DOMAIN counts : t \in AncOrSelf(tax, u)})

SetMax(S) == CHOOSE x \in S : \A y \in S : y <= x

TiedTaxa(counts, tax) ==
    {t \in DOMAIN counts :
        RefPathScore(counts, tax, t) =
            SetMax({RefPathScore(counts, tax, u) : u \in DOMAIN counts})}

Deepest(tax, S) ==
    IF S = {} THEN 0
    ELSE CHOOSE x \in S :
            \A y \in S : Cardinality(AncOrSelf(tax, y)) <= Cardinality(AncOrSelf(tax, x))

LcaOfSet(tax, S) ==
    IF S = {} THEN 0
    ELSE Deepest(tax, {x \in DOMAIN tax.nodes : \A t \in S : x \in AncOrSelf(tax, t)})

NearestMeeting(counts, tax, t, required) ==
    Deepest(tax, {x \in AncOrSelf(tax, t) : RefCladeScore(counts, tax, x) >= required})

----------------------------------------------------------------------------
(* C2: with required_score = 0, resolve_tree returns the LCA of all the    *)
(* taxa of hit_counts that tie for the maximum path score (the sum of the  *)
(* counts of the taxon and of its ancestors in hit_counts); root 1 with    *)
(* children 2 and 3 holding one hit each gives 1.                          *)
C2_TieReturnsLca ==
    (rpc = "resolved" /\ required_score = 0)
        => max_taxon = LcaOfSet(taxonomy, TiedTaxa(hit_counts, taxonomy))

C2_Witness ==
    /\ rpc = "resolved" /\ required_score = 0
    /\ taxonomy.nodes[2].parent_id = 1 /\ taxonomy.nodes[3].parent_id = 1
    /\ hit_counts = (2 :> 1) @@ (3 :> 1)
    /\ max_taxon = 1

(* C3 as stated: whenever the phase-1 maximum path score is at least       *)
(* required_score, resolve_tree returns the phase-1 taxon itself.          *)
C3_PathScoreStopsClimb ==
    (rpc = "resolved" /\ phase1.max_score >= required_score)
        => max_taxon = phase1.max_taxon

(* C3 amended: whenever the clade score of the phase-1 taxon (the counts   *)
(* of the taxon and of its descendants in hit_counts) is at least          *)
(* required_score, resolve_tree returns the phase-1 taxon itself; it       *)
(* climbs only if that clade score is below required_score.                *)
C3_CladeScoreStopsClimb ==
    (rpc = "resolved"
        /\ RefCladeScore(hit_counts, taxonomy, phase1.max_taxon) >= required_score)
        => max_taxon = phase1.max_taxon

C3_Witness ==
    /\ rpc = "resolved"
    /\ phase1.max_taxon # 0
    /\ GetOr0(hit_counts, phase1.max_taxon) < required_score
    /\ RefCladeScore(hit_counts, taxonomy, phase1.max_taxon) >= required_score
    /\ max_taxon = phase1.max_taxon

(* C4: resolve_tree returns the nearest ancestor-or-self of the phase-1    *)
(* taxon whose clade score is at least required_score, and 0 when no node  *)
(* up to the root has one; two sibling leaves with one hit each and        *)
(* required_score = 2 give their parent.                                   *)
C4_NearestAncestorMeeting ==
    rpc = "resolved"
        => max_taxon = NearestMeeting(hit_counts, taxonomy, phase1.max_taxon,
                                      required_score)

C4_Witness ==
    /\ rpc = "resolved"
    /\ phase1.max_taxon # 0
    /\ max_taxon # 0
    /\ max_taxon # phase1.max_taxon
    /\ RefCladeScore(hit_counts, taxonomy, phase1.max_taxon) < required_score

(* C5: when resolve_tree's call is nonzero and the read has fewer hit      *)
(* groups than minimum_hit_groups, process_hitgroup reports call 0, flag   *)
(* "U" and the external id of node 0.                                      *)
C5_MinimumHitGroupsGate ==
    (rpc = "done" /\ max_taxon # 0 /\ Len(hits.rows) < minimum_hit_groups)
        => /\ call = 0
           /\ result.clasify = "U"
           /\ result.ext_call = taxonomy.nodes[0].external_id

C5_Witness ==
    /\ rpc = "done" /\ max_taxon # 0
    /\ minimum_hit_groups = 2 /\ Len(hits.rows) = 1
    /\ result.clasify = "U"

----------------------------------------------------------------------------
(* Reference notions of the scanned slice, stated on positions 1..Len(s).  *)

IsBase(c) == c \in {"A", "C", "G", "T", "a", "c", "g", "t"}
BaseCode(c) ==
    CASE c \in {"A", "a"} -> 0 [] c \in {"C", "c"} -> 1
      [] c \in {"G", "g"} -> 2 [] c \in {"T", "t"} -> 3
NoLineBreaks(s) == \A i \in 1..Len(s) : s[i] \notin {"\n", "\r"}
ValidBases(s) == Cardinality({i \in 1..Len(s) : IsBase(s[i])})

(* The number of consecutive valid bases that end at position p.           *)
RECURSIVE RunLen(_, _)
RunLen(s, p) == IF p = 0 \/ ~IsBase(s[p]) THEN 0 ELSE 1 + RunLen(s, p - 1)

(* The l-mer whose last base is at p, and its candidate.                   *)
RECURSIVE LmerAt(_, _, _)
LmerAt(s, p, l) == IF l = 0 THEN 0 ELSE (4 * LmerAt(s, p - 1, l - 1)) + BaseCode(s[p])
CandAt(m, s, p) == to_candidate_lmer(m, LmerAt(s, p, m.l_mer))

SetMin(S) == CHOOSE x \in S : \A y \in S : x <= y
Width(m) == m.k_mer - m.l_mer + 1

(* Position p closes a k-mer: the last Width(m) candidates are in one run. *)
ClosesKmer(m, s, p) == RunLen(s, p) >= m.k_mer
WindowMin(m, s, p) == SetMin({CandAt(m, s, q) : q \in (p - Width(m) + 1)..p})

Call(a, sc, m, s) ==
    CASE a = "next_minimizer" -> next_minimizer(sc, m, s)
      [] a = "next_minimizer_inclusive" -> next_minimizer_inclusive(sc, m, s)
      [] a = "next_hashed_minimizer" -> next_hashed_minimizer(sc, m, s)

(* The stream a scanner in state sc yields on s: the Some values up to the *)
(* first None.                                                             *)
RECURSIVE Drain(_, _, _, _)
Drain(a, sc, m, s) ==
    LET r == Call(a, sc, m, s)
    IN  IF r.panic \/ r.ret = None THEN <<>>
        ELSE <<r.ret[1]>> \o Drain(a, r.scanner, m, s)

RECURSIVE StripLineBreaks(_)
StripLineBreaks(s) ==
    IF s = <<>> THEN <<>>
    ELSE IF Head(s) \in {"\n", "\r"} THEN StripLineBreaks(Tail(s))
    ELSE <<Head(s)>> \o StripLineBreaks(Tail(s))

Bound(sc, s) == MinimizerScanner_set_seq_end(sc, s)

----------------------------------------------------------------------------
(* C1: on a slice of bases and ambiguous bytes, every value returned by    *)
(* next_minimizer_inclusive is, toggled again, the smallest of the last    *)
(* w = k_mer - l_mer + 1 candidates, all of one run, and a value is        *)
(* returned at every position where the run has produced w candidates,     *)
(* the first of them exactly at the w-th candidate.                        *)
C1_WindowMinimum ==
    (pc \in {"scanning", "done"} /\ api = "next_minimizer_inclusive"
        /\ NoLineBreaks(seq))
        => /\ \A i \in 1..Len(out) :
                /\ ClosesKmer(meros, seq, outpos[i])
                /\ BitXor(out[i], meros.toggle_mask) = WindowMin(meros, seq, outpos[i])
           /\ \A p \in 1..scanner.cursor.pos :
                ClosesKmer(meros, seq, p) => \E i \in 1..Len(outpos) : outpos[i] = p

(* C6: no two consecutive values returned by next_minimizer on one bound   *)
(* slice are equal.                                                        *)
C6_NoConsecutiveDuplicates ==
    api = "next_minimizer" => \A i \in 1..(Len(out) - 1) : out[i] # out[i + 1]

C6_Witness ==
    /\ pc = "done" /\ api = "next_minimizer"
    /\ meros.k_mer - meros.l_mer # 1
    /\ \E i \in 1..Len(seq) : seq[i] = "N"
    /\ Len(out) >= 2
    /\ Len(out) < Cardinality({p \in 1..Len(seq) : ClosesKmer(meros, seq, p)})

(* C7: the stream of a slice equals the stream of the same slice with its  *)
(* '\n' and '\r' bytes removed, wherever those bytes stand.                *)
C7_LineBreaksSkipped ==
    pc \in {"done", "panic"}
        => /\ pc = "done"
           /\ out = Drain(api,
                          Bound([cursor |-> Cursor_new(meros), last_minimizer |-> start_last],
                                StripLineBreaks(seq)),
                          meros, StripLineBreaks(seq))

(* C8: a scanner that has returned None and is bound to a new slice yields *)
(* the stream a freshly constructed scanner yields on that slice.          *)
C8_ReuseEqualsFresh ==
    pc = "done" => out = Drain(api, Bound(MinimizerScanner_new(meros), seq), meros, seq)

(* C9: a slice with fewer than k_mer valid bases yields no value from any  *)
(* of the three primitives.                                                *)
C9_ShortSliceEmitsNothing ==
    (pc \in {"scanning", "done"} /\ ValidBases(seq) < meros.k_mer) => out = <<>>

IsAmbiguousReset ==
    /\ meros.k_mer = 5 /\ meros.l_mer = 3
    /\ seq = <<"A", "C", "G", "T", "N", "A", "C", "G", "T">>

(* C10 as stated: with k = 5, l = 3 on "ACGTNACGT" values are returned     *)
(* from the first run and from the second run, each of them computed from  *)
(* l-mers of one run.                                                      *)
C10_BothRunsEmit ==
    (pc = "done" /\ IsAmbiguousReset)
        => /\ \E i \in 1..Len(outpos) : outpos[i] <= 4
           /\ \E i \in 1..Len(outpos) : outpos[i] >= 6
           /\ \A i \in 1..Len(outpos) : RunLen(seq, outpos[i]) >= meros.l_mer

(* C10 amended: with k = 5, l = 3 on "ACGTNACGT" no value is returned at   *)
(* all: each run has 4 < k_mer bases, two candidates where w = 3 are       *)
(* needed, so nothing is returned from either run and nothing straddles    *)
(* the 'N'.                                                                *)
C10_NeitherRunEmits ==
    (pc \in {"scanning", "done"} /\ IsAmbiguousReset) => out = <<>>

C10_Witness ==
    /\ pc = "done" /\ IsAmbiguousReset
    /\ scanner.cursor.pos = 9
    /\ out = <<>>

----------------------------------------------------------------------------
(* The last byte at or before p that is neither a base nor a line break,   *)
(* 0 when there is none, and the base codes read after it up to p.         *)
LastBreak(s, p) ==
    SetMax({0} \cup {a \in 1..p : ~IsBase(s[a]) /\ s[a] \notin {"\n", "\r"}})

RECURSIVE CodesBetween(_, _, _)
CodesBetween(s, a, p) ==
    IF p <= a THEN <<>>
    ELSE IF IsBase(s[p]) THEN Append(CodesBetween(s, a, p - 1), BaseCode(s[p]))
    ELSE CodesBetween(s, a, p - 1)

AfterBreak(s, p) == CodesBetween(s, LastBreak(s, p), p)

RECURSIVE DigitsValue(_)
DigitsValue(d) ==
    IF d = <<>> THEN 0 ELSE (4 * DigitsValue(SubSeq(d, 1, Len(d) - 1))) + d[Len(d)]

IsSuffix(a, b) == Len(a) <= Len(b) /\ a = SubSeq(b, Len(b) - Len(a) + 1, Len(b))

(* The candidates of the l-mers that lie wholly in b.                      *)
CandsOf(m, b) ==
    {to_candidate_lmer(m, DigitsValue(SubSeq(b, i, i + m.l_mer - 1))) :
        i \in 1..(Len(b) - m.l_mer + 1)}

Plain(v) == IF api = "next_hashed_minimizer" THEN v.fmix64 ELSE v

(* C11: a byte that is neither a base nor a line break clears the l-mer    *)
(* register and the window: the register holds only bases read after the   *)
(* last such byte, every candidate in the window and the value returned    *)
(* last come from an l-mer of those bases, and at least l_mer bases lie    *)
(* between that byte and the emission.                                     *)
C11_AmbiguousByteClears ==
    pc \in {"scanning", "done", "panic"} =>
        /\ IsSuffix(scanner.cursor.inner, AfterBreak(seq, scanner.cursor.pos))
        /\ Len(scanner.cursor.inner) >= meros.l_mer =>
               scanner.cursor.value = DigitsValue(scanner.cursor.inner)
        /\ scanner.cursor.window.queue # <<>> =>
               LET cands == CandsOf(meros, AfterBreak(seq, scanner.cursor.pos))
               IN  \A j \in 1..Len(scanner.cursor.window.queue) :
                       scanner.cursor.window.queue[j].candidate_lmer \in cands
        /\ out # <<>> =>
               LET b == AfterBreak(seq, outpos[Len(out)])
               IN  /\ Len(b) >= meros.l_mer
                   /\ BitXor(Plain(out[Len(out)]), meros.toggle_mask)
                          \in CandsOf(meros, b)

(* A value is emitted after an ambiguous byte that follows a base.         *)
C11_Witness ==
    /\ pc = "scanning"
    /\ meros.l_mer = 2
    /\ \E i \in 1..Len(out) : LastBreak(seq, outpos[i]) > 1

----------------------------------------------------------------------------
(* C15: for Meros::new(10, 5, None, None, None) bound to "ACGATCGACGACG"   *)
(* the first value next_minimizer returns is 0x2D8 and the second is       *)
(* 0x218, and the scan does return two values.                             *)
C15_ScannerTestValues ==
    (/\ pc \in {"scanning", "done"}
     /\ api = "next_minimizer"
     /\ meros = Meros_new(10, 5)
     /\ seq = <<"A", "C", "G", "A", "T", "C", "G", "A", "C", "G", "A", "C", "G">>)
    => /\ Len(out) >= 1 => out[1] = 728
       /\ Len(out) >= 2 => out[2] = 536
       /\ pc = "done" => Len(out) >= 2

(* The second value of that scan has been returned.                        *)
C15_Witness ==
    /\ pc = "scanning"
    /\ api = "next_minimizer"
    /\ meros = Meros_new(10, 5)
    /\ seq = <<"A", "C", "G", "A", "T", "C", "G", "A", "C", "G", "A", "C", "G">>
    /\ Len(out) = 2

----------------------------------------------------------------------------
(* reverse_complement applied twice to an n-base word.                     *)

(* The words the function is applied to: every word whose bases repeat     *)
(* with period MaxPeriod, and every word with a single base that is not A. *)
PeriodicWord(seed, n) == [i \in 0..31 |-> IF i < n THEN seed[i % MaxPeriod] ELSE 0]
OneBaseWord(j, d) == [i \in 0..31 |-> IF i = j THEN d ELSE 0]
Words(n) ==
    {PeriodicWord(seed, n) : seed \in [0..(MaxPeriod - 1) -> 0..3]}
        \cup {OneBaseWord(j, d) : j \in 0..(n - 1), d \in 1..3}

InitRevcom ==
    /\ ScannerIdle
    /\ ResolverIdle
    /\ win = <<>> /\ drv = <<>> /\ wk = <<>>
    /\ \E n \in 1..31 : \E x \in Words(n) :
          rc = [n |-> n, x |-> x, y |-> x, z |-> x, calls |-> 0]

RevcomFirst ==
    /\ rc # <<>>
    /\ rc.calls = 0
    /\ rc' = [rc EXCEPT !.y = reverse_complement_word(rc.x, rc.n), !.calls = 1]
    /\ UNCHANGED <<scanVars, resVars, win, drv, wk>>

RevcomSecond ==
    /\ rc # <<>>
    /\ rc.calls = 1
    /\ rc' = [rc EXCEPT !.z = reverse_complement_word(rc.y, rc.n), !.calls = 2]
    /\ UNCHANGED <<scanVars, resVars, win, drv, wk>>

NextRevcom ==
    \/ RevcomFirst
    \/ RevcomSecond

SpecRevcom == InitRevcom /\ [][NextRevcom]_vars

(* C20: for 1 <= n <= 31 and x < 4^n no shift of reverse_complement(x, n)  *)
(* overflows, and reverse_complement(reverse_complement(x, n), n) = x.     *)
C20_ReverseComplementInvolution ==
    rc # <<>> =>
        /\ ~shift_overflows(rc.n)
        /\ rc.calls = 2 => rc.z = rc.x

(* A 31-base word that is not its own reverse complement went both ways.   *)
C20_Witness ==
    /\ rc # <<>>
    /\ rc.calls = 2
    /\ rc.n = 31
    /\ rc.y # rc.x

----------------------------------------------------------------------------
(* MinimizerWindow driven directly with a stream of candidates, as in      *)
(* tests::test_minimizer.                                                  *)

TestStreams == {[capacity |-> 1, data |-> <<1, 2, 3, 4>>],
                [capacity |-> 2, data |-> <<4, 3, 5, 2, 6, 2, 1>>]}

IsPrefix(a, b) == Len(a) <= Len(b) /\ a = SubSeq(b, 1, Len(a))

(* The candidates that may follow the stream fed so far.                   *)
Feedable(cap, fed) ==
    {c \in 0..MaxCand :
        Len(fed) < MaxFeed /\ \A i \in 1..Len(fed) : fed[i] <= MaxCand}
    \cup {c \in 0..6 : \E t \in TestStreams :
            t.capacity = cap /\ IsPrefix(Append(fed, c), t.data)}

InitWindow ==
    /\ ScannerIdle
    /\ ResolverIdle
    /\ rc = <<>> /\ drv = <<>> /\ wk = <<>>
    /\ \E cap \in 0..MaxCap :
          win = [capacity |-> cap, window |-> MinimizerWindow_new,
                 fed |-> <<>>, rets |-> <<>>]

WindowNext ==
    /\ win # <<>>
    /\ \E c \in Feedable(win.capacity, win.fed) :
          LET r == MinimizerWindow_next(win.window, win.capacity, c)
          IN  win' = [win EXCEPT !.window = r.window,
                                 !.fed = Append(win.fed, c),
                                 !.rets = Append(win.rets, r.ret)]
    /\ UNCHANGED <<scanVars, resVars, rc, drv, wk>>

WindowClear ==
    /\ win # <<>>
    /\ win.fed # <<>>
    /\ win' = [win EXCEPT !.window = MinimizerWindow_clear(win.window),
                          !.fed = <<>>, !.rets = <<>>]
    /\ UNCHANGED <<scanVars, resVars, rc, drv, wk>>

NextWindow ==
    \/ WindowNext
    \/ WindowClear

SpecWindow == InitWindow /\ [][NextWindow]_vars

(* The Some values of a sequence of returns, in order.                     *)
RECURSIVE Emitted(_)
Emitted(rets) ==
    IF rets = <<>> THEN <<>>
    ELSE IF Head(rets) = None THEN Emitted(Tail(rets))
    ELSE <<Head(rets)[1]>> \o Emitted(Tail(rets))

(* C16: a window of capacity c >= 2 returns None for its first c calls     *)
(* and from then on the smallest of the last c + 1 candidates, which is    *)
(* the candidate at the head of the deque; with capacity 2 the stream      *)
(* [4,3,5,2,6,2,1] yields [3,2,2,2,1].                                     *)
C16_WindowSlidingMinimum ==
    (win # <<>> /\ win.capacity >= 2) =>
        /\ \A j \in 1..Len(win.fed) :
              win.rets[j] =
                  IF j <= win.capacity THEN None
                  ELSE Some(SetMin({win.fed[i] : i \in (j - win.capacity)..j}))
        /\ Len(win.fed) > win.capacity =>
              /\ win.window.queue # <<>>
              /\ win.rets[Len(win.rets)] = Some(win.window.queue[1].candidate_lmer)
        /\ (win.capacity = 2 /\ win.fed = <<4, 3, 5, 2, 6, 2, 1>>) =>
              Emitted(win.rets) = <<3, 2, 2, 2, 1>>

(* The whole test stream went through a window of capacity 2.              *)
C16_Witness ==
    /\ win # <<>>
    /\ win.capacity = 2
    /\ win.fed = <<4, 3, 5, 2, 6, 2, 1>>
    /\ Len(Emitted(win.rets)) = 5

----------------------------------------------------------------------------
(* The scanner and the window of mmscanner.rs side by side: an execution   *)
(* is either a scanner on slices or a window on a candidate stream.        *)

InitUnits == Init \/ InitWindow

NextUnits ==
    \/ SetSeqEnd
    \/ NextMinimizer
    \/ NextMinimizerInclusive
    \/ NextHashedMinimizer
    \/ DropSlice
    \/ Reset
    \/ WindowNext
    \/ WindowClear

SpecUnits == InitUnits /\ [][NextUnits]_vars

(* C17: a window of capacity 1 returns Some(candidate) on every call, so   *)
(* [1,2,3,4] yields [1,2,3,4]; and with l_mer = k_mer the scanner returns, *)
(* at every base that completes an l-mer and at no other byte, the         *)
(* canonical l-mer that ends there.                                        *)
C17_WidthOneEmitsEveryCandidate ==
    /\ (win # <<>> /\ win.capacity = 1) =>
          /\ \A j \in 1..Len(win.fed) : win.rets[j] = Some(win.fed[j])
          /\ win.fed = <<1, 2, 3, 4>> => Emitted(win.rets) = <<1, 2, 3, 4>>
    /\ (/\ pc \in {"scanning", "done"}
        /\ api = "next_minimizer_inclusive"
        /\ meros.l_mer = meros.k_mer
        /\ NoLineBreaks(seq)) =>
          /\ \A p \in 1..scanner.cursor.pos :
                RunLen(seq, p) >= meros.l_mer =>
                    \E i \in 1..Len(out) :
                        /\ outpos[i] = p
                        /\ BitXor(out[i], meros.toggle_mask) = CandAt(meros, seq, p)
          /\ \A i \in 1..Len(out) :
                /\ RunLen(seq, outpos[i]) >= meros.l_mer
                /\ \A j \in 1..Len(out) : i < j => outpos[i] < outpos[j]

(* The test stream went through a window of capacity 1.                    *)
C17_Witness ==
    /\ win # <<>>
    /\ win.capacity = 1
    /\ win.fed = <<1, 2, 3, 4>>

----------------------------------------------------------------------------
(* The three ways the spec lists for a resolver output of 0.               *)
ClimbPassedRoot ==
    /\ phase1.max_taxon # 0
    /\ \A x \in AncOrSelf(taxonomy, phase1.max_taxon) :
          RefCladeScore(hit_counts, taxonomy, x) < required_score

GateTripped == max_taxon # 0 /\ Len(hits.rows) < minimum_hit_groups

(* C19 as stated: the output is 0 exactly when required_score = 0 and the  *)
(* counts are empty, or the climb passed the root with no node meeting     *)
(* required_score, or the hit-groups gate tripped.                         *)
C19_ZeroIffListedCases ==
    rpc = "done" =>
        (call = 0 <=> \/ required_score = 0 /\ DOMAIN hit_counts = {}
                      \/ ClimbPassedRoot
                      \/ GateTripped)

(* C19: the output is 0 exactly when the counts are empty, whatever        *)
(* required_score is, or the climb passed the root with no node meeting    *)
(* required_score, or the hit-groups gate tripped.                         *)
C19_ZeroIffEmptyOrClimbOrGate ==
    rpc = "done" =>
        (call = 0 <=> \/ DOMAIN hit_counts = {}
                      \/ ClimbPassedRoot
                      \/ GateTripped)

(* Empty counts under a positive required_score: no climb, no gate, 0.     *)
C19_Witness ==
    /\ rpc = "done"
    /\ DOMAIN hit_counts = {}
    /\ required_score > 0
    /\ call = 0

----------------------------------------------------------------------------
(* The classify binary: main and process_files.                            *)

(* cfg(feature = "dna") / cfg(feature = "protein"): the build has one.     *)
Features == {"dna", "protein"}

(* Mutant: the dna_db flag is not compared with the build.                 *)
check_feature_unchecked(feature, dna_db) == "Ok"

check_feature(feature, dna_db) ==
    IF feature = "dna" /\ ~dna_db THEN "Err"
    ELSE IF feature = "protein" /\ dna_db THEN "Err"
    ELSE "Ok"

(* main's test of the input file list.                                     *)
odd_file_list(a) ==
    a.paired_end_processing /\ ~a.single_file_pairs /\ a.input_files % 2 # 0

(* The number of readers process_files opens: chunks(2) of the files in    *)
(* paired mode, the files themselves otherwise.                            *)
reader_count(a) ==
    IF a.paired_end_processing /\ ~a.single_file_pairs
    THEN (a.input_files + 1) \div 2
    ELSE a.input_files

(* A record (or record pair) is known by its SeqReads key, the read id     *)
(* with the masked sequences; a record set holds 1..MaxBatch records.      *)
RecordSets ==
    UNION {{s \in [1..n -> 1..MaxBatch] : \A i, j \in 1..n : i < j => s[i] <= s[j]} :
              n \in 1..MaxBatch}

(* What record_sets.next() hands over: a failed read or a record set.      *)
ReadErr == [ok |-> FALSE, records |-> <<>>]
Items == {ReadErr} \cup {[ok |-> TRUE, records |-> s] : s \in RecordSets}
ItemSeqs(n) == UNION {[1..k -> Items] : k \in 0..n}

(* The worker closure: every record of the set is inserted in a HashSet.   *)
seq_pair_set(record_set) == {record_set[i] : i \in 1..Len(record_set)}

(* iclassify::classify_seq yields the output line of one item.             *)
classify_seq(item) == [dna_id |-> item]

InitDriver ==
    /\ ScannerIdle
    /\ ResolverIdle
    /\ win = <<>> /\ rc = <<>> /\ wk = <<>>
    /\ \E f \in Features, p \in BOOLEAN, s \in BOOLEAN, n \in 0..MaxFiles :
          drv = [feature |-> f,
                 args |-> [paired_end_processing |-> p, single_file_pairs |-> s,
                           input_files |-> n],
                 dna_db |-> TRUE, mpc |-> "start", ret |-> "none", err |-> "none",
                 writer |-> "none", readers |-> 0, consumed |-> 0,
                 failed |-> FALSE, unread |-> <<>>,
                 pending |-> {}, results |-> <<>>, lines |-> <<>>,
                 delivered |-> 0, classified |-> 0, written |-> 0]

DriverRest == UNCHANGED <<scanVars, resVars, win, rc, wk>>

ReturnErr(e) == drv' = [drv EXCEPT !.mpc = "returned", !.ret = "Err", !.err = e]

(* IndexOptions::read_index_options(..)?                                   *)
ReadIndexOptions ==
    /\ drv # <<>> /\ drv.mpc = "start"
    /\ \/ \E db \in BOOLEAN : drv' = [drv EXCEPT !.dna_db = db, !.mpc = "check_feature"]
       \/ ReturnErr("options")
    /\ DriverRest

(* check_feature(idx_opts.dna_db)?                                         *)
CheckFeature ==
    /\ drv # <<>> /\ drv.mpc = "check_feature"
    /\ IF check_feature(drv.feature, drv.dna_db) = "Err"
       THEN ReturnErr("feature")
       ELSE drv' = [drv EXCEPT !.mpc = "load"]
    /\ DriverRest

(* Taxonomy::from_file(..)? and CompactHashTable::from(..)?                *)
LoadIndex ==
    /\ drv # <<>> /\ drv.mpc = "load"
    /\ \/ drv' = [drv EXCEPT !.mpc = "check_files"]
       \/ ReturnErr("taxonomy")
       \/ ReturnErr("index")
    /\ DriverRest

CheckFiles ==
    /\ drv # <<>> /\ drv.mpc = "check_files"
    /\ IF odd_file_list(drv.args)
       THEN ReturnErr("odd file list")
       ELSE drv' = [drv EXCEPT !.mpc = "create_writer"]
    /\ DriverRest

(* File::create(filename)? or stdout.                                      *)
CreateWriter ==
    /\ drv # <<>> /\ drv.mpc = "create_writer"
    /\ \/ drv' = [drv EXCEPT !.writer = "open", !.mpc = "process_files"]
       \/ ReturnErr("create")
    /\ DriverRest

(* process_files: the next reader is opened and read_parallel starts; a    *)
(* file that cannot be opened panics in unwrap.                            *)
OpenReader ==
    /\ drv # <<>> /\ drv.mpc = "process_files"
    /\ drv.readers < reader_count(drv.args)
    /\ \/ drv' = [drv EXCEPT !.readers = drv.readers + 1, !.consumed = 0,
                             !.unread = <<>>, !.lines = <<>>, !.mpc = "consume"]
       \/ drv' = [drv EXCEPT !.mpc = "panic"]
    /\ DriverRest

(* while let Some(Ok((_, seq_pair_set))) = record_sets.next(): a record    *)
(* set starts the parallel classification; None and Err both end the loop, *)
(* and after Err the file may hold more, which this reader never delivers. *)
ConsumeNext ==
    /\ drv # <<>> /\ drv.mpc = "consume"
    /\ \/ drv' = [drv EXCEPT !.mpc = "process_files"]
       \/ /\ drv.consumed < MaxItems
          /\ \E rest \in ItemSeqs(MaxItems - drv.consumed - 1) :
                drv' = [drv EXCEPT !.consumed = drv.consumed + 1, !.failed = TRUE,
                                   !.unread = rest, !.mpc = "process_files"]
       \/ /\ drv.consumed < MaxItems
          /\ \E s \in RecordSets :
                drv' = [drv EXCEPT !.consumed = drv.consumed + 1,
                                   !.delivered = drv.delivered + Len(s),
                                   !.pending = seq_pair_set(s),
                                   !.results = <<>>, !.lines = <<>>,
                                   !.mpc = "classify"]
    /\ DriverRest

(* Mutant: the write loop starts as soon as one result is there.          *)
ClassifyItem_writes_early ==
    /\ drv # <<>> /\ drv.mpc = "classify"
    /\ \E item \in drv.pending :
          drv' = [drv EXCEPT !.pending = drv.pending \ {item},
                             !.results = Append(drv.results, classify_seq(item)),
                             !.classified = drv.classified + 1,
                             !.mpc = "write"]
    /\ DriverRest

(* into_par_iter().map(classify_seq).collect(): the items of the set are   *)
(* classified in any order; the results are complete before any is written. *)
ClassifyItem ==
    /\ drv # <<>> /\ drv.mpc = "classify"
    /\ \E item \in drv.pending :
          drv' = [drv EXCEPT !.pending = drv.pending \ {item},
                             !.results = Append(drv.results, classify_seq(item)),
                             !.classified = drv.classified + 1,
                             !.mpc = IF drv.pending = {item} THEN "write" ELSE "classify"]
    /\ DriverRest

(* for result in results { writeln!(writer, ..).expect(..) }               *)
WriteLine ==
    /\ drv # <<>> /\ drv.mpc = "write"
    /\ \/ drv' = [drv EXCEPT !.lines = Append(drv.lines, Head(drv.results)),
                             !.results = Tail(drv.results),
                             !.written = drv.written + 1,
                             !.mpc = IF Len(drv.results) = 1 THEN "consume" ELSE "write"]
       \/ drv' = [drv EXCEPT !.mpc = "panic"]
    /\ DriverRest

(* process_files has gone through every reader; main returns Ok(()).       *)
ReturnOk ==
    /\ drv # <<>> /\ drv.mpc = "process_files"
    /\ drv.readers = reader_count(drv.args)
    /\ drv' = [drv EXCEPT !.mpc = "returned", !.ret = "Ok"]
    /\ DriverRest

NextDriver ==
    \/ ReadIndexOptions
    \/ CheckFeature
    \/ LoadIndex
    \/ CheckFiles
    \/ CreateWriter
    \/ OpenReader
    \/ ConsumeNext
    \/ ClassifyItem
    \/ WriteLine
    \/ ReturnOk

SpecDriver == InitDriver /\ [][NextDriver]_vars

(* C12: when no read failed, process_files has written as many lines as    *)
(* the readers delivered records, duplicates counted.                      *)
C12_OneLinePerRecord ==
    (drv # <<>> /\ drv.mpc = "returned" /\ drv.ret = "Ok" /\ ~drv.failed)
        => drv.written = drv.delivered

(* C13: when the consumer is done with a file, the file holds no record    *)
(* set behind a failed read that was not classified and written.           *)
C13_FailedReadDoesNotEndFile ==
    (drv # <<>> /\ drv.mpc \in {"process_files", "returned"})
        => \A i \in 1..Len(drv.unread) : ~drv.unread[i].ok

(* The index was built for the other alphabet than the binary.             *)
FeatureMismatch ==
    \/ drv.feature = "dna" /\ ~drv.dna_db
    \/ drv.feature = "protein" /\ drv.dna_db

(* C14: with a dna_db flag that the build rejects, or an odd file list in  *)
(* paired mode without single-file pairs, main never creates the writer,   *)
(* starts no reader, classifies nothing, writes nothing, and what it       *)
(* returns is an error.                                                    *)
C14_ConfigErrorsBeforeWriter ==
    (/\ drv # <<>>
     /\ drv.mpc # "start"
     /\ \/ FeatureMismatch
        \/ drv.args.paired_end_processing /\ ~drv.args.single_file_pairs
               /\ drv.args.input_files % 2 = 1)
    => /\ drv.writer = "none"
       /\ drv.readers = 0
       /\ drv.classified = 0
       /\ drv.written = 0
       /\ drv.mpc # "panic"
       /\ drv.mpc = "returned" => drv.ret = "Err"

(* main has returned the error for an odd file list.                       *)
C14_Witness ==
    /\ drv # <<>>
    /\ drv.mpc = "returned"
    /\ drv.err = "odd file list"
    /\ drv.writer = "none"

----------------------------------------------------------------------------
(* process_hitgroup called from several threads that share one             *)
(* classify_counter.                                                       *)

(* resolve_tree as a function of the order in which the outer loop visits  *)
(* the entries of hit_counts.                                              *)
RECURSIVE phase1_loop(_, _, _, _, _)
phase1_loop(counts, tax, order, mt, ms) ==
    IF order = <<>> THEN [max_taxon |-> mt, max_score |-> ms]
    ELSE LET r == phase1_iteration(counts, tax, mt, ms, Head(order))
         IN  phase1_loop(counts, tax, Tail(order), r.max_taxon, r.max_score)

RECURSIVE climb_loop(_, _, _, _, _)
climb_loop(counts, tax, mt, ms, required) ==
    IF mt # 0 /\ ms < required
    THEN LET r == climb_iteration(counts, tax, mt, required)
         IN  IF r.stop THEN r.max_taxon
             ELSE climb_loop(counts, tax, r.max_taxon, r.max_score, required)
    ELSE mt

(* The climbing loop on the outcome p of phase 1.                          *)
resolve_tree_climb(counts, tax, required, p) ==
    climb_loop(counts, tax, p.max_taxon,
               climb_start_score(counts, p.max_taxon, p.max_score), required)

resolve_tree(counts, tax, required, order) ==
    resolve_tree_climb(counts, tax, required, phase1_loop(counts, tax, order, 0, 0))

Orders(S) ==
    {s \in [1..Cardinality(S) -> S] : \A i, j \in 1..Cardinality(S) : i # j => s[i] # s[j]}

(* The outcomes of phase 1 on a read, over every iteration order.          *)
Phase1Outcomes(counts, tax) ==
    {phase1_loop(counts, tax, order, 0, 0) : order \in Orders(DOMAIN counts)}

(* The calls process_hitgroup can arrive at on a taxonomy, over every read, *)
(* required_score, minimum_hit_groups and iteration order.                 *)
CallsOn ==
    [tax \in Taxonomies |->
        UNION {{hit_groups_gate(resolve_tree_climb(stat_hits(h), tax, required, p),
                                capacity(h), min_groups) :
                   required \in 0..MaxRequired, min_groups \in 0..MaxMinGroups,
                   p \in Phase1Outcomes(stat_hits(h), tax)} : h \in HitGroups}]

(* Mutant: the counter is bumped for unclassified reads as well.           *)
fetch_add_if_classified_always(counter, c) == counter + 1

(* if call > 0 { classify_counter.fetch_add(1, Ordering::SeqCst); .. }     *)
fetch_add_if_classified(counter, c) == IF c > 0 THEN counter + 1 ELSE counter

Threads == 1..MaxCalls

InitWorkers ==
    /\ ScannerIdle
    /\ ResolverIdle
    /\ win = <<>> /\ rc = <<>> /\ drv = <<>>
    /\ \E tax \in Taxonomies :
          wk = [taxonomy |-> tax, classify_counter |-> 0,
                calls |-> [t \in Threads |-> [pc |-> "start", call |-> 0, result |-> <<>>]]]

(* stat_hits, resolve_tree and the gate work on the call's own data.       *)
ResolveCall(t) ==
    /\ wk # <<>>
    /\ wk.calls[t].pc = "start"
    /\ \E c \in CallsOn[wk.taxonomy] :
          wk' = [wk EXCEPT !.calls[t].pc = "called", !.calls[t].call = c]
    /\ UNCHANGED <<scanVars, resVars, win, rc, drv>>

(* The atomic fetch_add on the shared counter, the read count of the       *)
(* call's own TaxonCounters, and the return.                               *)
CountCall(t) ==
    /\ wk # <<>>
    /\ wk.calls[t].pc = "called"
    /\ wk' = [wk EXCEPT
                 !.classify_counter = fetch_add_if_classified(@, wk.calls[t].call),
                 !.calls[t].result = classify_result(wk.taxonomy, wk.calls[t].call),
                 !.calls[t].pc = "done"]
    /\ UNCHANGED <<scanVars, resVars, win, rc, drv>>

NextWorkers ==
    \/ \E t \in Threads : ResolveCall(t)
    \/ \E t \in Threads : CountCall(t)

SpecWorkers == InitWorkers /\ [][NextWorkers]_vars

(* C18: in every interleaving a finished call has flag "C" exactly when    *)
(* its call is > 0 and "U" otherwise, its read count is bumped for its     *)
(* call exactly when the flag is "C", and classify_counter is the number   *)
(* of finished calls with flag "C".                                        *)
C18_CounterCountsClassified ==
    wk # <<>> =>
        /\ \A t \in Threads :
              wk.calls[t].pc = "done" =>
                  /\ wk.calls[t].result.clasify = "C" <=> wk.calls[t].call > 0
                  /\ wk.calls[t].result.clasify = "U" <=> wk.calls[t].call = 0
                  /\ wk.calls[t].result.read_count =
                         IF wk.calls[t].result.clasify = "C"
                         THEN {wk.calls[t].call} ELSE {}
        /\ wk.classify_counter =
               Cardinality({t \in Threads : /\ wk.calls[t].pc = "done"
                                            /\ wk.calls[t].result.clasify = "C"})

(* One call returned "C" and another "U" while sharing the counter.        *)
C18_Witness ==
    /\ wk # <<>>
    /\ \E t, u \in Threads :
          /\ wk.calls[t].pc = "done" /\ wk.calls[t].result.clasify = "C"
          /\ wk.calls[u].pc = "done" /\ wk.calls[u].result.clasify = "U"
    /\ wk.classify_counter = 1

----------------------------------------------------------------------------
(* A stream with every run of equal consecutive values cut to one value.   *)
RECURSIVE Collapse(_)
Collapse(s) ==
    IF Len(s) <= 1 THEN s
    ELSE IF s[1] = s[2] THEN Collapse(Tail(s))
    ELSE <<s[1]>> \o Collapse(Tail(s))

InclusiveStream ==
    Drain("next_minimizer_inclusive", Bound(MinimizerScanner_new(meros), seq), meros, seq)

(* C21: when a scanner that starts from last_minimizer = u64::MAX has gone *)
(* through a slice with next_minimizer, the values it returned are those   *)
(* next_minimizer_inclusive returns on the slice with every run of equal   *)
(* consecutive values cut to one.                                          *)
C21_DedupIsCollapsedInclusive ==
    (/\ pc \in {"done", "panic"}
     /\ api = "next_minimizer"
     /\ start_last = U64_MAX)
    => out = Collapse(InclusiveStream)

(* A value was suppressed and a value was returned.                        *)
C21_Witness ==
    /\ pc = "done"
    /\ api = "next_minimizer"
    /\ start_last = U64_MAX
    /\ out # <<>>
    /\ Len(out) < Len(InclusiveStream)

----------------------------------------------------------------------------
(* C23: on every bound slice, Cursor::slide reads seq only below the slice *)
(* length, so no call of next_minimizer, next_minimizer_inclusive or       *)
(* next_hashed_minimizer panics.                                           *)
C23_NoReadPastSlice == pc # "panic"

----------------------------------------------------------------------------
(* A call of next_minimizer or next_minimizer_inclusive on the bound slice. *)
IsStreamCall ==
    /\ pc \in {"scanning", "done"}
    /\ pc' # "idle"
    /\ api \in {"next_minimizer", "next_minimizer_inclusive"}

(* C26: every call on a bound slice returns Some or None; a call that      *)
(* returns Some has read further into the slice than the one before, so    *)
(* at most len(seq) calls return Some; and after a None every call         *)
(* returns None.                                                           *)
C26_StreamEndsAndStaysEnded ==
    [][IsStreamCall =>
          /\ pc' \in {"scanning", "done"}
          /\ Len(out') <= Len(seq)
          /\ (pc = "scanning" /\ pc' = "scanning") =>
                /\ Len(out') = Len(out) + 1
                /\ outpos'[Len(out')] > scanner.cursor.pos
                /\ outpos'[Len(out')] <= Len(seq)
          /\ pc = "done" => (pc' = "done" /\ out' = out)]_vars

----------------------------------------------------------------------------
(* C24: the taxon resolve_tree returns, found here with the entries of     *)
(* hit_counts visited in some order, is the taxon it returns under every   *)
(* other order of visiting them.                                           *)
C24_IterationOrderIrrelevant ==
    rpc = "resolved" =>
        \A order \in Orders(DOMAIN hit_counts) :
            resolve_tree(hit_counts, taxonomy, required_score, order) = max_taxon

(* resolve_tree has returned on a read whose best path score is a tie.     *)
C24_Witness ==
    /\ rpc = "resolved"
    /\ Cardinality(DOMAIN hit_counts) >= 3
    /\ Cardinality(TiedTaxa(hit_counts, taxonomy)) >= 2
    /\ max_taxon # 0

----------------------------------------------------------------------------
(* The number of nodes from t up to the root.                              *)
RefDepth(tax, t) == Cardinality(AncOrSelf(tax, t))

(* The position of the call in process_hitgroup, counted from its end.     *)
PhaseRank ==
    CASE rpc = "start" -> 4
      [] rpc = "phase1" -> 3
      [] rpc = "climb" -> 2
      [] rpc = "resolved" -> 1
      [] OTHER -> 0

(* What the loop the call is in still has to go through: the entries not   *)
(* yet visited in phase 1, the nodes from max_taxon up to the root in the  *)
(* climbing loop.                                                          *)
StepsLeft ==
    CASE rpc = "phase1" -> Cardinality(todo)
      [] rpc = "climb" -> (IF max_taxon = 0 THEN 0 ELSE RefDepth(taxonomy, max_taxon))
      [] OTHER -> 0

(* C25: on a taxonomy where every parent has a smaller id than its child,  *)
(* the call comes to its end: phase 1 leaves its loop once every entry is  *)
(* visited, the climbing loop always has its exit or another pass to       *)
(* take, and every step either leaves a loop for the next part of the      *)
(* call or lowers what the loop still has to go through. Every pass of the *)
(* climbing loop that does not break replaces max_taxon by its parent, a   *)
(* smaller id one level up, so the loop makes at most depth(phase-1        *)
(* taxon) parent steps.                                                    *)
C25_ResolveTreeTerminates ==
    /\ [](rpc = "phase1" => (ENABLED Phase1End \/ todo # {}))
    /\ [](rpc = "climb" => (ENABLED ClimbEnd \/ ENABLED ClimbStep))
    /\ [][/\ \/ PhaseRank' < PhaseRank
             \/ (PhaseRank' = PhaseRank /\ StepsLeft' < StepsLeft)
          /\ (rpc = "climb" /\ max_taxon' # max_taxon) =>
                /\ max_taxon' = taxonomy.nodes[max_taxon].parent_id
                /\ max_taxon' < max_taxon
                /\ RefDepth(taxonomy, max_taxon') = RefDepth(taxonomy, max_taxon) - 1
                /\ RefDepth(taxonomy, max_taxon) <= RefDepth(taxonomy, phase1.max_taxon)
                /\ max_taxon \in AncOrSelf(taxonomy, phase1.max_taxon)]_vars

(* The climbing loop went from a node of depth 3 up past the root.         *)
C25_Witness ==
    /\ rpc = "done"
    /\ RefDepth(taxonomy, phase1.max_taxon) >= 3
    /\ max_taxon = 0

----------------------------------------------------------------------------
(* C22: a line reaches the writer only in the consumer's write loop, one   *)
(* whole result of classify_seq per writeln, and only when no item of the  *)
(* record set is still to be classified; while items are classified no     *)
(* line of their record set has been written.                              *)
C22_SerializedSink ==
    [][drv # <<>> =>
          /\ (drv'.written # drv.written \/ (drv'.lines # drv.lines /\ drv'.lines # <<>>)) =>
                /\ drv.mpc = "write"
                /\ drv.pending = {}
                /\ drv.results # <<>>
                /\ drv'.written = drv.written + 1
                /\ drv'.lines = Append(drv.lines, Head(drv.results))
                /\ drv'.results = Tail(drv.results)
                /\ drv'.classified = drv.classified
          /\ drv'.classified # drv.classified =>
                /\ drv.mpc = "classify"
                /\ drv.lines = <<>>
                /\ drv'.written = drv.written]_vars

(* The first of two results of a record set is written, the second not.    *)
C22_Witness ==
    /\ drv # <<>>
    /\ drv.mpc = "write"
    /\ Len(drv.lines) = 1
    /\ Len(drv.results) = 1
    /\ drv.pending = {}

====
